---- MODULE Spec2Model ----
(***************************************************************************)
(* EarlyAllocator<PAGE_SIZE> of arceos/modules/bump_allocator: a double-   *)
(* ended bump allocator.  Bytes are allocated forward from start, pages    *)
(* backward from the end of the region.                                    *)
(*                                                                         *)
(* usize is modelled as a WordBits-bit unsigned integer.  Rust arithmetic  *)
(* on usize panics on overflow when the build has overflow checks (debug   *)
(* profile) and wraps otherwise (release profile); the build is chosen     *)
(* once, in Init, and both builds are explored.                            *)
(***************************************************************************)
EXTENDS Integers, Naturals, FiniteSets, Sequences, Bags, TLC

\* ---------------------------------------------------------------- bounds
\* Width of usize in the model.
WordBits == 4
\* Largest region size handed to init.
MaxRegion == 9
\* Largest ordinary allocation size handed to alloc.
MaxSize == 2
\* Largest ordinary page count handed to alloc_pages / dealloc_pages.
MaxPages == 2
\* Largest number of outstanding byte allocations the caller keeps.
MaxAllocs == 2
\* Largest number of outstanding pages at which the caller still calls the
\* page side.
MaxPageCount == 3
\* Largest number of outstanding alloc_pages results the caller keeps track of.
MaxPageAllocs == 2

\* const PAGE_SIZE: usize, the const generic parameter (a power of two).
PAGE_SIZE == 4

Modulus == 2 ^ WordBits
\* usize::MAX
MaxWord == Modulus - 1
\* isize::MAX, the largest size a Layout may have
IsizeMax == 2 ^ (WordBits - 1) - 1

\* ------------------------------------------------------ usize arithmetic
\* r is the mathematical result of a usize operation.
Overflows(r) == r < 0 \/ r > MaxWord
Wrap(r) == r % Modulus

RECURSIVE BitAndRec(_, _, _)
BitAndRec(a, b, n) ==
    IF n = 0 THEN 0
    ELSE (a % 2) * (b % 2) + 2 * BitAndRec(a \div 2, b \div 2, n - 1)
\* a & b on usize
BitAnd(a, b) == BitAndRec(a, b, WordBits)
\* !a on usize
BitNot(a) == MaxWord - a

\* 1 << n on usize: the shift amount overflows when n >= WordBits; without
\* overflow checks the amount is masked to the word width.
ShlOverflows(n) == n >= WordBits
Shl1(n) == 2 ^ (n % WordBits)

VARIABLES
    start, end, b_pos, p_pos, count, page_count,  \* fields of EarlyAllocator
    overflow_checks,   \* build profile: TRUE = arithmetic overflow panics
    initialized,       \* init has been called on this instance
    contract_ok,       \* no release precondition has been violated so far
    last,              \* the most recent call: operation, result, value
    hist               \* the caller's record: the size given to init and the
                       \* allocations it holds (kept under SpecHist only)

fields == <<start, end, b_pos, p_pos, count, page_count>>
vars == <<start, end, b_pos, p_pos, count, page_count,
          overflow_checks, initialized, contract_ok, last, hist>>

Call(op, result, ret) == [op |-> op, result |-> result, ret |-> ret]

\* A panic aborts the kernel: nothing runs after it.
Panicked == last.result = "Panic"
\* What the allocator does after a release precondition was violated is
\* outside its contract: the violating call is modelled, later calls are not.
Callable == ~Panicked /\ contract_ok

\* -------------------------------------------------------------- helpers
\* fn align_up(&self, v, align) = (v + align - 1) & !(align - 1)
align_up_overflows(v, align) ==
    Overflows(v + align) \/ Overflows(Wrap(v + align) - 1)
align_up(v, align) ==
    BitAnd(Wrap(Wrap(v + align) - 1), BitNot(Wrap(align - 1)))

\* fn align_down(&self, v, align) = v & !(align - 1)
align_down(v, align) == BitAnd(v, BitNot(Wrap(align - 1)))

\* ------------------------------------------------------------ accessors
\* A subtraction that underflows panics under overflow checks (-1 stands
\* for the panic) and wraps otherwise.
CheckedSub(a, b) ==
    IF Overflows(a - b) /\ overflow_checks THEN -1 ELSE Wrap(a - b)
total_bytes == CheckedSub(p_pos, start)
used_bytes == CheckedSub(b_pos, start)
available_bytes == CheckedSub(p_pos, b_pos)
PagesOf(d) == IF d = -1 THEN -1 ELSE d \div PAGE_SIZE
total_pages == PagesOf(CheckedSub(end, b_pos))
used_pages == PagesOf(CheckedSub(end, p_pos))
available_pages == PagesOf(CheckedSub(p_pos, b_pos))

\* ----------------------------------------------------------------- Init
\* EarlyAllocator::new(): every field zero.
Init ==
    /\ start = 0 /\ end = 0 /\ b_pos = 0 /\ p_pos = 0
    /\ count = 0 /\ page_count = 0
    /\ overflow_checks \in BOOLEAN
    /\ initialized = FALSE
    /\ contract_ok = TRUE
    /\ last = Call("new", "Done", 0)
    /\ hist = [size |-> 0, live |-> EmptyBag]

\* --------------------------------------------------------------- inputs
\* Alignments: byte, half-word, page, two pages, and the largest power of two.
Aligns == {1, 2, PAGE_SIZE, 2 * PAGE_SIZE, 2 ^ (WordBits - 1)}
RoundUp(size, align) == ((size + align - 1) \div align) * align
\* core::alloc::Layout: align is a power of two and size, rounded up to
\* align, does not exceed isize::MAX.
Layouts ==
    { l \in ((0..MaxSize) \cup {IsizeMax}) \X Aligns :
        RoundUp(l[1], l[2]) <= IsizeMax }
\* Regions at address 0, at a page boundary, off a page boundary, and at the
\* top of the address space.
InitStarts == {0, PAGE_SIZE, PAGE_SIZE + 1, Modulus - 2 * PAGE_SIZE}
\* Region sizes: empty, two whole pages, and one that ends off a page boundary.
InitSizes == {0, 2 * PAGE_SIZE, MaxRegion}
\* Page counts: ordinary ones, and one whose byte size exceeds usize::MAX.
PageCounts == (0..MaxPages) \cup {Modulus \div PAGE_SIZE}
\* Alignment exponents: byte, page, two pages, and one past the word width.
AlignPow2s == {0, 2, 3, WordBits}
\* Addresses handed to dealloc / dealloc_pages (never read by the code).
ReleaseAddrs == {PAGE_SIZE, 2 * PAGE_SIZE}
\* Layouts handed to dealloc (never read by the code).
ReleaseLayouts == {<<1, 1>>, <<MaxSize, PAGE_SIZE>>}

\* ------------------------------------------------------------- outcomes
\* The fields as they are, with the outcome of a call.
Outcome(result, ret) ==
    [start |-> start, end |-> end, b_pos |-> b_pos, p_pos |-> p_pos,
     count |-> count, page_count |-> page_count,
     result |-> result, ret |-> ret]

Apply(o, op) ==
    /\ start' = o.start /\ end' = o.end
    /\ b_pos' = o.b_pos /\ p_pos' = o.p_pos
    /\ count' = o.count /\ page_count' = o.page_count
    /\ last' = Call(op, o.result, o.ret)

\* init that forgets to round end down to a page boundary.
init_outcome_end_unaligned(s, size) ==
    LET sum == s + size
    IN  IF overflow_checks /\ Overflows(sum)
        THEN [Outcome("Panic", 0) EXCEPT !.start = s]
        ELSE [Outcome("Done", 0) EXCEPT
                !.start = s,
                !.end = Wrap(sum),
                !.b_pos = s,
                !.p_pos = Wrap(sum)]

\* fn init(&mut self, start, size)
init_outcome(s, size) ==
    LET sum == s + size
    IN  IF overflow_checks /\ Overflows(sum)
        THEN [Outcome("Panic", 0) EXCEPT !.start = s]
        ELSE [Outcome("Done", 0) EXCEPT
                !.start = s,
                !.end = (Wrap(sum) \div PAGE_SIZE) * PAGE_SIZE,
                !.b_pos = s,
                !.p_pos = Wrap(sum)]

\* alloc with the bump pointer committed before the bounds check.
alloc_outcome_commit_first(size, align) ==
    LET cand == align_up(b_pos, align)
        top == cand + size
        cnt == count + 1
    IN  IF overflow_checks /\ (align_up_overflows(b_pos, align) \/ Overflows(top))
        THEN Outcome("Panic", 0)
        ELSE IF ~(Wrap(top) <= p_pos)
        THEN [Outcome("NoMemory", 0) EXCEPT !.b_pos = Wrap(top)]
        ELSE IF overflow_checks /\ Overflows(cnt)
        THEN [Outcome("Panic", 0) EXCEPT !.b_pos = Wrap(top)]
        ELSE IF cand = 0
        THEN [Outcome("Panic", 0) EXCEPT !.b_pos = Wrap(top), !.count = Wrap(cnt)]
        ELSE [Outcome("Ok", cand) EXCEPT !.b_pos = Wrap(top), !.count = Wrap(cnt)]

\* fn alloc(&mut self, layout) -> AllocResult<NonNull<u8>>
alloc_outcome(size, align) ==
    LET cand == align_up(b_pos, align)
        top == cand + size
        cnt == count + 1
    IN  IF overflow_checks /\ (align_up_overflows(b_pos, align) \/ Overflows(top))
        THEN Outcome("Panic", 0)
        ELSE IF ~(Wrap(top) <= p_pos)
        THEN Outcome("NoMemory", 0)
        ELSE IF overflow_checks /\ Overflows(cnt)
        THEN [Outcome("Panic", 0) EXCEPT !.b_pos = Wrap(top)]
        ELSE IF cand = 0
        \* NonNull::new(0 as *mut u8) is None: unwrap() panics
        THEN [Outcome("Panic", 0) EXCEPT !.b_pos = Wrap(top), !.count = Wrap(cnt)]
        ELSE [Outcome("Ok", cand) EXCEPT !.b_pos = Wrap(top), !.count = Wrap(cnt)]

\* dealloc that rejects the call when nothing is outstanding.
dealloc_outcome_guarded(pos, layout) ==
    LET cnt == count - 1
    IN  IF count = 0
        THEN Outcome("Done", 0)
        ELSE IF Wrap(cnt) = 0
        THEN [Outcome("Done", 0) EXCEPT !.count = 0, !.b_pos = start]
        ELSE [Outcome("Done", 0) EXCEPT !.count = Wrap(cnt)]

\* dealloc that frees only when the released address is the region's start.
dealloc_outcome_by_address(pos, layout) ==
    LET cnt == count - 1
    IN  IF overflow_checks /\ Overflows(cnt)
        THEN Outcome("Panic", 0)
        ELSE IF Wrap(cnt) = 0 /\ pos = PAGE_SIZE
        THEN [Outcome("Done", 0) EXCEPT !.count = 0, !.b_pos = start]
        ELSE [Outcome("Done", 0) EXCEPT !.count = Wrap(cnt)]

\* dealloc that, on the last release, resets the page side as well.
dealloc_outcome_resets_both(pos, layout) ==
    LET cnt == count - 1
    IN  IF overflow_checks /\ Overflows(cnt)
        THEN Outcome("Panic", 0)
        ELSE IF Wrap(cnt) = 0
        THEN [Outcome("Done", 0) EXCEPT
                !.count = 0, !.b_pos = start, !.p_pos = end]
        ELSE [Outcome("Done", 0) EXCEPT !.count = Wrap(cnt)]

\* dealloc that decrements the counter and never resets b_pos.
dealloc_outcome_no_reset(pos, layout) ==
    LET cnt == count - 1
    IN  IF overflow_checks /\ Overflows(cnt)
        THEN Outcome("Panic", 0)
        ELSE [Outcome("Done", 0) EXCEPT !.count = Wrap(cnt)]

\* fn dealloc(&mut self, pos, layout)
dealloc_outcome(pos, layout) ==
    LET cnt == count - 1
    IN  IF overflow_checks /\ Overflows(cnt)
        THEN Outcome("Panic", 0)
        ELSE IF Wrap(cnt) = 0
        THEN [Outcome("Done", 0) EXCEPT !.count = 0, !.b_pos = start]
        ELSE [Outcome("Done", 0) EXCEPT !.count = Wrap(cnt)]

\* fn alloc_pages(&mut self, num_pages, align_pow2) -> AllocResult<usize>
alloc_pages_outcome(num_pages, align_pow2) ==
    LET align == Shl1(align_pow2)
        bytes == num_pages * PAGE_SIZE
        low == p_pos - Wrap(bytes)
        cand == align_down(Wrap(low), align)
        cnt == page_count + num_pages
    IN  IF overflow_checks
           /\ (ShlOverflows(align_pow2) \/ Overflows(bytes) \/ Overflows(low))
        THEN Outcome("Panic", 0)
        ELSE IF ~(cand >= b_pos)
        THEN Outcome("NoMemory", 0)
        ELSE IF overflow_checks /\ Overflows(cnt)
        THEN [Outcome("Panic", 0) EXCEPT !.p_pos = cand]
        ELSE [Outcome("Ok", cand) EXCEPT !.p_pos = cand, !.page_count = Wrap(cnt)]

\* dealloc_pages that decrements the counter and never resets p_pos.
dealloc_pages_outcome_no_reset(pos, num_pages) ==
    LET cnt == page_count - num_pages
    IN  IF overflow_checks /\ Overflows(cnt)
        THEN Outcome("Panic", 0)
        ELSE [Outcome("Done", 0) EXCEPT !.page_count = Wrap(cnt)]

\* fn dealloc_pages(&mut self, pos, num_pages)
dealloc_pages_outcome(pos, num_pages) ==
    LET cnt == page_count - num_pages
    IN  IF overflow_checks /\ Overflows(cnt)
        THEN Outcome("Panic", 0)
        ELSE IF Wrap(cnt) = 0
        THEN [Outcome("Done", 0) EXCEPT !.page_count = 0, !.p_pos = end]
        ELSE [Outcome("Done", 0) EXCEPT !.page_count = Wrap(cnt)]

\* add_memory that accepts the new range and moves end.
add_memory_outcome_grows(s, size) ==
    [Outcome("Done", 0) EXCEPT !.end = Wrap(s + size)]

\* fn add_memory(&mut self, start, size) -> AllocResult: unimplemented!()
add_memory_outcome(s, size) == Outcome("Panic", 0)

\* -------------------------------------------------------------- actions
\* init is called at most once on an instance (the caller's obligation).
InitCall(s, size) ==
    /\ Callable /\ ~initialized
    /\ Apply(init_outcome(s, size), "init")
    /\ initialized' = TRUE
    /\ UNCHANGED <<overflow_checks, contract_ok>>

Alloc(size, align) ==
    /\ Callable
    /\ count < MaxAllocs
    /\ Apply(alloc_outcome(size, align), "alloc")
    /\ UNCHANGED <<overflow_checks, initialized, contract_ok>>

Dealloc(pos, layout) ==
    /\ Callable
    /\ count <= MaxAllocs
    /\ Apply(dealloc_outcome(pos, layout), "dealloc")
    /\ contract_ok' = (contract_ok /\ count > 0)
    /\ UNCHANGED <<overflow_checks, initialized>>

AllocPages(num_pages, align_pow2) ==
    /\ Callable
    /\ page_count <= MaxPageCount
    /\ Apply(alloc_pages_outcome(num_pages, align_pow2), "alloc_pages")
    /\ UNCHANGED <<overflow_checks, initialized, contract_ok>>

DeallocPages(pos, num_pages) ==
    /\ Callable
    /\ page_count <= MaxPageCount
    /\ Apply(dealloc_pages_outcome(pos, num_pages), "dealloc_pages")
    /\ contract_ok' = (contract_ok /\ page_count >= num_pages)
    /\ UNCHANGED <<overflow_checks, initialized>>

AddMemory(s, size) ==
    /\ Callable
    /\ Apply(add_memory_outcome(s, size), "add_memory")
    /\ UNCHANGED <<overflow_checks, initialized, contract_ok>>

Next ==
    \/ \E s \in InitStarts, size \in InitSizes :
          InitCall(s, size) /\ UNCHANGED hist
    \/ \E l \in Layouts : Alloc(l[1], l[2]) /\ UNCHANGED hist
    \/ \E pos \in ReleaseAddrs, l \in ReleaseLayouts :
          Dealloc(pos, l) /\ UNCHANGED hist
    \/ \E n \in PageCounts, a \in AlignPow2s :
          AllocPages(n, a) /\ UNCHANGED hist
    \/ \E pos \in ReleaseAddrs, n \in PageCounts :
          DeallocPages(pos, n) /\ UNCHANGED hist
    \/ \E s \in {0, PAGE_SIZE}, size \in {PAGE_SIZE} :
          AddMemory(s, size) /\ UNCHANGED hist

Spec == Init /\ [][Next]_vars

\* ------------------------------------------------ a caller that keeps books
\* The caller initializes the allocator first, releases only what it holds,
\* and stops at the first allocation it is given outside its region.
\* An allocation the caller holds: the address returned and its length in
\* bytes.
Held(kind, addr, len) == [kind |-> kind, addr |-> addr, len |-> len]
HeldOf(kind) == { e \in BagToSet(hist.live) : e.kind = kind }
HeldCount(kind) ==
    BagCardinality([e \in HeldOf(kind) |-> CopiesIn(e, hist.live)])
Keep(e) == [hist EXCEPT !.live = @ (+) SetToBag({e})]
Drop(e) == [hist EXCEPT !.live = @ (-) SetToBag({e})]

Inside(e) == start <= e.addr /\ e.addr + e.len <= start + hist.size
HistCallable == initialized /\ \A e \in BagToSet(hist.live) : Inside(e)

HistInit(s, size) ==
    /\ InitCall(s, size)
    /\ hist' = [hist EXCEPT !.size = size]

HistAlloc(size, align) ==
    /\ HistCallable
    /\ Alloc(size, align)
    /\ hist' = IF last'.result = "Ok"
               THEN Keep(Held("bytes", last'.ret, size))
               ELSE hist

\* Release of an allocation the caller holds, with the size it was made with.
HistDealloc(e) ==
    /\ HistCallable
    /\ Dealloc(e.addr, <<e.len, 1>>)
    /\ hist' = Drop(e)

HistAllocPages(num_pages, align_pow2) ==
    /\ HistCallable
    /\ HeldCount("pages") < MaxPageAllocs
    /\ AllocPages(num_pages, align_pow2)
    /\ hist' = IF last'.result = "Ok"
               THEN Keep(Held("pages", last'.ret, num_pages * PAGE_SIZE))
               ELSE hist

\* Release of a page run the caller holds, with the page count it asked for.
HistDeallocPages(e) ==
    /\ HistCallable
    /\ DeallocPages(e.addr, e.len \div PAGE_SIZE)
    /\ hist' = Drop(e)

HistNext ==
    \/ \E s \in InitStarts, size \in InitSizes : HistInit(s, size)
    \/ \E l \in Layouts : HistAlloc(l[1], l[2])
    \/ \E e \in HeldOf("bytes") : HistDealloc(e)
    \/ \E n \in PageCounts, a \in AlignPow2s : HistAllocPages(n, a)
    \/ \E e \in HeldOf("pages") : HistDeallocPages(e)

SpecHist == Init /\ [][HistNext]_vars

TypeOK ==
    /\ fields \in (0..MaxWord) \X (0..MaxWord) \X (0..MaxWord)
                  \X (0..MaxWord) \X (0..MaxWord) \X (0..MaxWord)
    /\ last.result \in {"Done", "Ok", "NoMemory", "Panic"}

\* ------------------------------------------------------- reference math
\* align_up and align_down over the mathematical integers.
MathAlignUp(v, align) == ((v + align - 1) \div align) * align
MathAlignDown(v, align) == (v \div align) * align

\* --------------------------------------------------------------- claims
\* C1: in every state reached from init by calls that respect the release
\* preconditions, start <= b_pos <= p_pos <= end.
C1_RegionOrdered ==
    initialized /\ contract_ok /\ ~Panicked
        => start <= b_pos /\ b_pos <= p_pos /\ p_pos <= end

\* C2: an alloc or alloc_pages call that returns NoMemory leaves start, end,
\* b_pos, p_pos, count and page_count as they were before the call.
C2_NoMutationOnFailure ==
    [][last'.op \in {"alloc", "alloc_pages"} /\ last'.result = "NoMemory"
          => UNCHANGED fields]_vars
\* An initialized allocator with outstanding bytes and pages refused an alloc.
C2_Witness ==
    /\ initialized /\ last.op = "alloc" /\ last.result = "NoMemory"
    /\ count > 0 /\ page_count > 0

\* C3: whenever calls that respect the release preconditions have brought
\* count back to zero, b_pos = start and available_bytes() = total_bytes().
C3_ByteReclaim ==
    contract_ok /\ ~Panicked /\ count = 0
        => b_pos = start /\ available_bytes = total_bytes
\* The last outstanding byte allocation of a region that also holds pages
\* was just released.
C3_Witness ==
    /\ initialized /\ last.op = "dealloc" /\ last.result = "Done"
    /\ contract_ok /\ count = 0 /\ page_count > 0 /\ p_pos > start

C5_PagesNeverFreed ==
    [][initialized /\ last'.op = "dealloc_pages" => p_pos' <= p_pos]_vars

\* C6: alloc(size, align) succeeds iff candidate + size <= p_pos with
\* candidate = align_up(b_pos, align); on success it returns candidate, sets
\* b_pos = candidate + size and increments count by one.
C6_AllocContract ==
    [][\A l \in Layouts :
          Alloc(l[1], l[2]) =>
            LET cand == MathAlignUp(b_pos, l[2])
            IN  /\ last'.result = "Ok" <=> cand + l[1] <= p_pos
                /\ last'.result = "Ok" =>
                      /\ last'.ret = cand
                      /\ b_pos' = cand + l[1]
                      /\ count' = count + 1]_vars

\* C7: alloc_pages(count, align_pow2) succeeds iff candidate >= b_pos with
\* candidate = align_down(p_pos - count * PAGE_SIZE, 2^align_pow2); on
\* success it returns candidate, sets p_pos = candidate and adds count to
\* page_count.
C7_AllocPagesContract ==
    [][\A n \in PageCounts, a \in AlignPow2s :
          AllocPages(n, a) =>
            LET cand == MathAlignDown(p_pos - n * PAGE_SIZE, 2 ^ a)
            IN  /\ last'.result = "Ok" <=> cand >= b_pos
                /\ last'.result = "Ok" =>
                      /\ last'.ret = cand
                      /\ p_pos' = cand
                      /\ page_count' = page_count + n]_vars

\* C8: a successful alloc never decreases b_pos and a successful
\* alloc_pages never increases p_pos.
C8_Monotonic ==
    [][/\ last'.op = "alloc" /\ last'.result = "Ok" => b_pos' >= b_pos
       /\ last'.op = "alloc_pages" /\ last'.result = "Ok" => p_pos' <= p_pos]_vars

\* C9: alloc_pages returns NoMemory whenever count * PAGE_SIZE exceeds
\* p_pos - b_pos.
C9_PagesOutOfMemory ==
    [][\A n \in PageCounts, a \in AlignPow2s :
          AllocPages(n, a) /\ n * PAGE_SIZE > p_pos - b_pos
              => last'.result = "NoMemory"]_vars

\* C10: every alloc and alloc_pages call returns an address or NoMemory; it
\* never panics.
C10_NoPanic ==
    last.op \in {"alloc", "alloc_pages"} => last.result \in {"Ok", "NoMemory"}

\* C11: every add_memory call fails with the "unsupported" signal (the
\* unimplemented!() panic) and changes none of start, end, b_pos, p_pos,
\* count, page_count.
C11_ExtendUnsupported ==
    [][\A s \in {0, PAGE_SIZE}, size \in {PAGE_SIZE} :
          AddMemory(s, size) => last'.result = "Panic" /\ UNCHANGED fields]_vars
\* add_memory was called on a region holding bytes and pages.
C11_Witness ==
    /\ initialized /\ last.op = "add_memory"
    /\ count > 0 /\ page_count > 0 /\ b_pos > start /\ p_pos < end

\* A fresh instance: EarlyAllocator::new() and no call since.
Fresh == ~initialized /\ last.op = "new"

\* C12 as stated: init(start, size) on a fresh instance sets start,
\* end = align_down(start + size, PAGE_SIZE), b_pos = start and
\* p_pos = start + size, leaves both counters at zero, and end is a multiple
\* of PAGE_SIZE in every reachable state.
C12_InitAsStated ==
    /\ [](end % PAGE_SIZE = 0)
    /\ [][\A s \in InitStarts, size \in InitSizes :
            InitCall(s, size) /\ Fresh =>
              /\ start' = s
              /\ end' = MathAlignDown(s + size, PAGE_SIZE)
              /\ b_pos' = s
              /\ p_pos' = s + size
              /\ count' = 0 /\ page_count' = 0]_vars

\* C12 amended: the same, for every region whose upper bound start + size
\* is representable (does not exceed usize::MAX).
C12_InitRepresentable ==
    /\ [](end % PAGE_SIZE = 0)
    /\ [][\A s \in InitStarts, size \in InitSizes :
            InitCall(s, size) /\ Fresh /\ s + size <= MaxWord =>
              /\ last'.result = "Done"
              /\ start' = s
              /\ end' = MathAlignDown(s + size, PAGE_SIZE)
              /\ b_pos' = s
              /\ p_pos' = s + size
              /\ count' = 0 /\ page_count' = 0]_vars
\* init has just set up a region away from address 0 that ends off a page
\* boundary.
C12_Witness ==
    /\ initialized /\ last.op = "init" /\ last.result = "Done"
    /\ start > 0 /\ b_pos = start /\ p_pos > end /\ end > start

\* C13: the effect of dealloc does not depend on its arguments: any two
\* argument choices give the same outcome, and a call that returns leaves
\* count decremented by one, b_pos = start exactly when the new count is
\* zero and unchanged otherwise, and every other field unchanged.
C13_ReleaseIgnoresArguments ==
    /\ [](\A p1, p2 \in ReleaseAddrs, l1, l2 \in ReleaseLayouts :
            dealloc_outcome(p1, l1) = dealloc_outcome(p2, l2))
    /\ [][\A pos \in ReleaseAddrs, l \in ReleaseLayouts :
            Dealloc(pos, l) /\ last'.result = "Done" =>
              /\ count' = Wrap(count - 1)
              /\ b_pos' = (IF count' = 0 THEN start ELSE b_pos)
              /\ UNCHANGED <<start, end, p_pos, page_count>>]_vars
\* One of two outstanding byte allocations was released: b_pos stays put.
C13_Witness ==
    /\ initialized /\ last.op = "dealloc" /\ last.result = "Done"
    /\ count = 1 /\ b_pos > start

\* C14: alloc and dealloc never change p_pos, page_count, start or end;
\* alloc_pages and dealloc_pages never change b_pos, count, start or end.
C14_SidesIndependent ==
    [][/\ last'.op \in {"alloc", "dealloc"}
            => UNCHANGED <<p_pos, page_count, start, end>>
       /\ last'.op \in {"alloc_pages", "dealloc_pages"}
            => UNCHANGED <<b_pos, count, start, end>>]_vars
\* The last byte allocation was released while pages were outstanding.
C14_Witness ==
    /\ initialized /\ last.op = "dealloc" /\ last.result = "Done"
    /\ count = 0 /\ page_count > 0 /\ p_pos < end

\* C15 as stated: dealloc with count = 0, or dealloc_pages with more pages
\* than page_count, wraps the counter to a non-zero value, does not reset
\* the pointer, and returns.
C15_UnderflowWraps ==
    [][/\ \A pos \in ReleaseAddrs, l \in ReleaseLayouts :
            Dealloc(pos, l) /\ count = 0 =>
              /\ last'.result = "Done"
              /\ count' = MaxWord /\ b_pos' = b_pos
       /\ \A pos \in ReleaseAddrs, n \in PageCounts :
            DeallocPages(pos, n) /\ n > page_count =>
              /\ last'.result = "Done"
              /\ page_count' = Wrap(page_count - n) /\ page_count' # 0
              /\ p_pos' = p_pos]_vars

\* What an over-release does: without overflow checks the counter wraps to
\* a non-zero value and the call returns; with overflow checks the
\* subtraction panics and the counter is unchanged.  The pointer is reset
\* in neither case.
OverRelease(cnt, cnt2, n, ptr, ptr2) ==
    /\ ptr2 = ptr
    /\ IF overflow_checks
       THEN last'.result = "Panic" /\ cnt2 = cnt
       ELSE last'.result = "Done" /\ cnt2 = Wrap(cnt - n) /\ cnt2 # 0

\* C15 amended: no guard of the allocator rejects an over-release; the
\* counter is decremented before it is tested, so the call wraps it (build
\* without overflow checks) or panics on the subtraction (build with them).
C15_UnderflowByBuild ==
    [][/\ \A pos \in ReleaseAddrs, l \in ReleaseLayouts :
            Dealloc(pos, l) /\ count = 0 =>
              OverRelease(count, count', 1, b_pos, b_pos')
       /\ \A pos \in ReleaseAddrs, n \in PageCounts :
            DeallocPages(pos, n) /\ n > page_count =>
              OverRelease(page_count, page_count', n, p_pos, p_pos')]_vars
\* dealloc was called with nothing outstanding and the counter wrapped.
C15_Witness ==
    /\ initialized /\ ~contract_ok /\ last.op = "dealloc"
    /\ last.result = "Done" /\ count = MaxWord /\ p_pos > start

\* C18: every address returned by a successful alloc_pages is a multiple of
\* PAGE_SIZE and of 2^align_pow2 (for the exponents below the word width).
C18_PagesAligned ==
    [][\A n \in PageCounts, a \in AlignPow2s :
          AllocPages(n, a) /\ last'.result = "Ok" /\ a < WordBits =>
            /\ last'.ret % PAGE_SIZE = 0
            /\ last'.ret % (2 ^ a) = 0]_vars

\* C19: in every reachable state none of end - b_pos, end - p_pos,
\* p_pos - b_pos underflows, and
\* used_pages() + available_pages() = total_pages().
C19_PageAccessors ==
    ~Panicked /\ contract_ok =>
        /\ end >= b_pos /\ end >= p_pos /\ p_pos >= b_pos
        /\ used_pages + available_pages = total_pages

\* The addresses an allocation occupies (machine-word addresses).
Addrs(e) == { Wrap(e.addr + i) : i \in 0..(e.len - 1) }

\* C16: while every release matches an earlier successful allocation, the
\* address ranges of the outstanding allocations are pairwise disjoint.
C16_NoOverlap ==
    \A e1, e2 \in BagToSet(hist.live) :
        /\ e1 # e2 => Addrs(e1) \cap Addrs(e2) = {}
        /\ CopiesIn(e1, hist.live) > 1 => e1.len = 0

\* C17: every successful allocation of an initialized allocator lies inside
\* the region given to init: start <= addr and addr + length <= start + size.
C17_InsideRegion ==
    [][/\ \A l \in Layouts :
            Alloc(l[1], l[2]) /\ initialized /\ last'.result = "Ok" =>
              /\ start <= last'.ret
              /\ last'.ret + l[1] <= start + hist.size
       /\ \A n \in PageCounts, a \in AlignPow2s :
            AllocPages(n, a) /\ initialized /\ last'.result = "Ok" =>
              /\ start <= last'.ret
              /\ last'.ret + n * PAGE_SIZE <= start + hist.size]_vars

====
